---- MODULE Spec2Model ----
(***************************************************************************)
(* Railway ticket reservation server: the seat table t_seat, the two MCP   *)
(* tools check_ticket_tool / book_ticket_tool (server.py) and the store    *)
(* functions check_ticket / book_ticket (tools.py).  Every book_ticket_tool *)
(* call is a process; its steps are the database statements at which it    *)
(* reads or changes what other calls can see (the committed table and the  *)
(* row locks).  Statements that touch only the call's own connection are   *)
(* taken together with the step before them.                               *)
(***************************************************************************)
EXTENDS Integers, FiniteSets, Sequences, TLC

\* ---------------------------------------------------------------- bounds
NumSeats == 3
NumCalls == 2
MaxReq == 2

\* ------------------------------------------------------------- constants
\* seat_status values of t_seat
AVAILABLE == 0
BOOKED == 1

Seats == 1..NumSeats
Calls == 1..NumCalls
\* num_seats values a caller may pass (the tool does not validate them, so
\* 0 is among them): none, one and the largest request
Requests == {0, 1, MaxReq}

\* routes used by callers: a populated route, a populated route that differs
\* from it in one station, and the reverse of the first, which has no seat rows
Routes == {<<"A", "B">>, <<"A", "A">>, <<"B", "A">>}

\* pre-provisioned rows of t_seat: (start_station, end_station) of seat id s
SeatRoute(s) == IF s % 3 = 0 THEN <<"A", "A">> ELSE <<"A", "B">>

VARIABLES
    status,      \* committed seat_status of every row of t_seat
    locks,       \* locks[c]: rows on which transaction c holds an exclusive lock
    sel,         \* sel[c]: rows returned so far to c's SELECT ... FOR UPDATE
    pending,     \* pending[c]: rows c's UPDATE has written, not yet committed
    conn,        \* conn[c]: connection of book_ticket ("none","open","closed",
                 \* "lost": dead before the server was told of its end)
    txn,         \* txn[c]: "none","active","committed","rolledback","abandoned"
    pc,          \* position of book_ticket_tool call c
    route,       \* arguments (start_station, end_station) of call c
    num,         \* argument num_seats of call c
    ret,         \* what book_ticket returned to call c (ignored by the tool)
    outcome,     \* the dict book_ticket_tool returned
    cres,        \* the dict the latest check_ticket_tool call returned
    initStatus,  \* history: the seat table before any request
    availAtStart,\* history: AVAILABLE seats of the route when call c started
    solo,        \* history: no other booking call overlapped call c
    errAt,       \* history: where call c hit an error of the store
    bookedBy     \* history: bookedBy[s] = committed transactions that updated s

vars == <<status, locks, sel, pending, conn, txn, pc, route, num, ret, outcome,
          cres, initStatus, availAtStart, solo, errAt, bookedBy>>

bookVars == <<locks, sel, pending, conn, txn, pc, route, num, ret, outcome,
              availAtStart, solo, errAt>>

\* ------------------------------------------------------------- helpers
RECURSIVE SumOver(_, _)
SumOver(S, f) ==
    IF S = {} THEN 0
    ELSE LET x == CHOOSE y \in S : TRUE
         IN f[x] + SumOver(S \ {x}, f)

Min(S) == CHOOSE x \in S : \A y \in S : x <= y

\* WHERE seat_status=0 AND start_station=%s AND end_station=%s
\* (variants: the seat_status condition left out; the end_station condition
\* left out)
Matches_AnyStatus(st, s, r) ==
    /\ SeatRoute(s)[1] = r[1]
    /\ SeatRoute(s)[2] = r[2]
Matches_StartOnly(st, s, r) ==
    /\ st[s] = AVAILABLE
    /\ SeatRoute(s)[1] = r[1]
Matches(st, s, r) ==
    /\ st[s] = AVAILABLE
    /\ SeatRoute(s)[1] = r[1]
    /\ SeatRoute(s)[2] = r[2]

\* the "remaining" quantity of a route: its seats with status AVAILABLE
AvailableCount(st, r) ==
    Cardinality({s \in Seats : SeatRoute(s) = r /\ st[s] = AVAILABLE})

\* SELECT COUNT(*) ... (tools.py check_ticket): a non-locking read of the
\* committed table
\* (variant: the seat_status=0 condition left out of the WHERE clause)
check_ticket_AnyStatus(st, r) ==
    Cardinality({s \in Seats : SeatRoute(s) = r})
check_ticket(st, r) ==
    Cardinality({s \in Seats : Matches(st, s, r)})

NoOutcome == [status |-> "none", kind |-> "none", booked |-> 0, n |-> 0]

\* server.py 61: {"status": "fail", "message": f"余票不足，仅剩 {remaining} 张", "booked": 0}
\* (variant: the message carries num_seats)
InsufficientOutcome_Requested(m, rem) ==
    [status |-> "fail", kind |-> "insufficient", booked |-> 0, n |-> m]
InsufficientOutcome(m, rem) ==
    [status |-> "fail", kind |-> "insufficient", booked |-> 0, n |-> rem]

\* server.py 65-66: {"status": "fail", "message": str(e), "booked": 0}
ExceptionOutcome == [status |-> "fail", kind |-> "error", booked |-> 0, n |-> 0]

\* server.py 63-64: book_ticket(...) is called for effect, the string it
\* returns (bt) is dropped, and the tool returns success with booked = num_seats
SuccessOutcome(m, bt) ==
    [status |-> "success", kind |-> "booked", booked |-> m, n |-> m]

\* server.py 60: if num_seats > remaining
\* (variant: >= in place of >)
PreCheckRejects_Geq(m, rem) == m >= rem
PreCheckRejects(m, rem) == m > rem

\* row lock compatibility of SELECT ... FOR UPDATE: the row is free of
\* exclusive locks of other transactions
\* (variant: the select without FOR UPDATE, which waits for no lock)
CanLock_NoForUpdate(c, s) == TRUE
CanLock(c, s) == \A d \in Calls \ {c} : s \notin locks[d]

\* rows the locking select of c still has to visit, in index order
Candidates(c) == {s \in Seats : Matches(status, s, route[c]) /\ s \notin sel[c]}

\* tools.py 44: if len(seats) < num_seats
TooFew(c) == Cardinality(sel[c]) < num[c]

InFlight(c) == pc[c] \notin {"idle", "done"}

\* ---------------------------------------------------------------- Init
Init ==
    /\ status = [s \in Seats |-> AVAILABLE]
    /\ initStatus = status
    /\ locks = [c \in Calls |-> {}]
    /\ sel = [c \in Calls |-> {}]
    /\ pending = [c \in Calls |-> {}]
    /\ conn = [c \in Calls |-> "none"]
    /\ txn = [c \in Calls |-> "none"]
    /\ pc = [c \in Calls |-> "idle"]
    /\ route = [c \in Calls |-> <<"A", "B">>]
    /\ num = [c \in Calls |-> 0]
    /\ ret = [c \in Calls |-> "none"]
    /\ outcome = [c \in Calls |-> NoOutcome]
    /\ cres = [status |-> "none", remaining |-> 0, route |-> <<"A", "B">>,
               written |-> 0]
    /\ availAtStart = [c \in Calls |-> 0]
    /\ solo = [c \in Calls |-> TRUE]
    /\ errAt = [c \in Calls |-> "none"]
    /\ bookedBy = [s \in Seats |-> {}]

\* ------------------------------------------------------- check_ticket_tool
\* rows of route r that some open transaction has updated but not committed
WrittenRows(r) ==
    {s \in Seats : SeatRoute(s) = r /\ \E c \in Calls : s \in pending[c]}

\* rows of route r on which some open transaction holds a lock
LockedRows(r) ==
    {s \in Seats : SeatRoute(s) = r /\ \E c \in Calls : s \in locks[c]}

\* (variant: the count read at READ UNCOMMITTED, which sees pending updates)
CheckOk_DirtyRead(r) ==
    /\ cres' = [status |-> "success",
                remaining |-> Cardinality({s \in Seats :
                                 Matches(status, s, r) /\ s \notin WrittenRows(r)}),
                route |-> r,
                written |-> Cardinality(WrittenRows(r))]
    /\ UNCHANGED <<status, initStatus, bookedBy>>
    /\ UNCHANGED bookVars

\* (variant: the count as a locking read, which waits for row locks)
CheckOk_LockingRead(r) ==
    /\ LockedRows(r) = {}
    /\ cres' = [status |-> "success", remaining |-> check_ticket(status, r),
                route |-> r, written |-> Cardinality(WrittenRows(r))]
    /\ UNCHANGED <<status, initStatus, bookedBy>>
    /\ UNCHANGED bookVars

\* server.py 28-30: remaining = check_ticket(...); return success.  The call
\* is one non-locking read on a connection of its own, so it is one step.
\* (written is history: the uncommitted rows of the route at the read)
CheckOk(r) ==
    /\ cres' = [status |-> "success", remaining |-> check_ticket(status, r),
                route |-> r, written |-> Cardinality(WrittenRows(r))]
    /\ UNCHANGED <<status, initStatus, bookedBy>>
    /\ UNCHANGED bookVars

\* server.py 31-32: check_ticket raised (connection or query error, whatever
\* the route); remaining is None, written -1
CheckFail ==
    /\ cres' = [status |-> "fail", remaining |-> 0 - 1, route |-> cres.route,
                written |-> 0]
    /\ UNCHANGED <<status, initStatus, bookedBy>>
    /\ UNCHANGED bookVars

\* -------------------------------------------------------- book_ticket_tool
\* calls are numbered in the order in which they arrive
Arrives(c) ==
    /\ pc[c] = "idle"
    /\ \A d \in Calls : d < c => pc[d] # "idle"

\* history bookkeeping at the start of call c
Started(c, r) ==
    /\ availAtStart' = [availAtStart EXCEPT ![c] = AvailableCount(status, r)]
    /\ solo' = [d \in Calls |->
                  IF d = c THEN \A e \in Calls \ {c} : ~InFlight(e)
                  ELSE IF InFlight(d) THEN FALSE ELSE solo[d]]

\* server.py 56-61: the pre-check finds too few seats and the tool returns
PreCheckReject(c, r, m) ==
    /\ Arrives(c)
    /\ PreCheckRejects(m, check_ticket(status, r))
    /\ Started(c, r)
    /\ route' = [route EXCEPT ![c] = r]
    /\ num' = [num EXCEPT ![c] = m]
    /\ outcome' = [outcome EXCEPT ![c] =
                     InsufficientOutcome(m, check_ticket(status, r))]
    /\ pc' = [pc EXCEPT ![c] = "done"]
    /\ UNCHANGED <<status, initStatus, bookedBy, locks, sel, pending, conn,
                   txn, ret, errAt, cres>>

\* server.py 56-63 and tools.py 27-29: the pre-check passes, the tool calls
\* book_ticket, which opens its connection (autocommit off: a transaction)
PreCheckPass(c, r, m) ==
    /\ Arrives(c)
    /\ ~PreCheckRejects(m, check_ticket(status, r))
    /\ Started(c, r)
    /\ route' = [route EXCEPT ![c] = r]
    /\ num' = [num EXCEPT ![c] = m]
    /\ conn' = [conn EXCEPT ![c] = "open"]
    /\ txn' = [txn EXCEPT ![c] = "active"]
    /\ pc' = [pc EXCEPT ![c] = "select"]
    /\ UNCHANGED <<status, initStatus, bookedBy, locks, sel, pending, ret,
                   outcome, errAt, cres>>

\* server.py 56, 65-66: check_ticket raised inside the pre-check (the store
\* is unreachable or fails the query, whatever the arguments are)
PreCheckError(c) ==
    /\ Arrives(c)
    /\ solo' = [d \in Calls |-> IF InFlight(d) THEN FALSE ELSE solo[d]]
    /\ errAt' = [errAt EXCEPT ![c] = "precheck"]
    /\ outcome' = [outcome EXCEPT ![c] = ExceptionOutcome]
    /\ pc' = [pc EXCEPT ![c] = "done"]
    /\ UNCHANGED <<status, initStatus, bookedBy, locks, sel, pending, conn,
                   txn, ret, route, num, availAtStart, cres>>

\* tools.py 27 raising after the pre-check passed: get_db_connection() is
\* outside book_ticket's try, so the exception reaches book_ticket_tool's
\* except clause (server.py 65-66)
BookConnectError(c, r, m) ==
    /\ Arrives(c)
    /\ ~PreCheckRejects(m, check_ticket(status, r))
    /\ solo' = [d \in Calls |-> IF InFlight(d) THEN FALSE ELSE solo[d]]
    /\ errAt' = [errAt EXCEPT ![c] = "connect"]
    /\ outcome' = [outcome EXCEPT ![c] = ExceptionOutcome]
    /\ pc' = [pc EXCEPT ![c] = "done"]
    /\ UNCHANGED <<status, initStatus, bookedBy, locks, sel, pending, conn,
                   txn, ret, route, num, availAtStart, cres>>

\* tools.py 31-41: the locking select visits the next matching row; it waits
\* while another transaction holds the row's lock
LockRow(c) ==
    /\ pc[c] = "select"
    /\ TooFew(c)
    /\ Candidates(c) # {}
    /\ LET s == Min(Candidates(c))
       IN /\ CanLock(c, s)
          /\ locks' = [locks EXCEPT ![c] = @ \cup {s}]
          /\ sel' = [sel EXCEPT ![c] = @ \cup {s}]
    /\ UNCHANGED <<status, initStatus, bookedBy, pending, conn, txn, pc,
                   route, num, ret, outcome, availAtStart, solo, errAt, cres>>

\* the select has its LIMIT rows or has run out of matching rows
SelectComplete(c) ==
    /\ pc[c] = "select"
    /\ (~TooFew(c) \/ Candidates(c) = {})

\* tools.py 42-45, 62-63 and server.py 63-64: fewer rows than requested;
\* book_ticket returns the "余票不足" string without commit or rollback, the
\* finally clause calls conn.close() and the tool returns success. close()
\* sends COM_QUIT and does not wait for the server (conn "closed"), and it
\* ignores a failure to send it (conn "lost"); either way the transaction is
\* still open on the server and keeps its row locks when the call returns
FetchTooFew(c) ==
    /\ SelectComplete(c)
    /\ TooFew(c)
    /\ sel' = [sel EXCEPT ![c] = {}]
    /\ \E k \in {"closed", "lost"} : conn' = [conn EXCEPT ![c] = k]
    /\ ret' = [ret EXCEPT ![c] = "insufficient"]
    /\ outcome' = [outcome EXCEPT ![c] = SuccessOutcome(num[c], "insufficient")]
    /\ pc' = [pc EXCEPT ![c] = "done"]
    /\ UNCHANGED <<status, initStatus, bookedBy, locks, pending, txn, route,
                   num, availAtStart, solo, errAt, cres>>

\* (variant: the connection in autocommit mode, so the update is written to
\* the table when it is executed)
Update_Autocommit(c) ==
    /\ SelectComplete(c)
    /\ ~TooFew(c)
    /\ sel[c] # {}
    /\ status' = [s \in Seats |-> IF s \in sel[c] THEN BOOKED ELSE status[s]]
    /\ pending' = [pending EXCEPT ![c] = sel[c]]
    /\ pc' = [pc EXCEPT ![c] = "commit"]
    /\ UNCHANGED <<initStatus, bookedBy, locks, sel, conn, txn, route,
                   num, ret, outcome, availAtStart, solo, errAt, cres>>

\* (variant: the update names the route instead of the selected ids)
Update_WholeRoute(c) ==
    /\ SelectComplete(c)
    /\ ~TooFew(c)
    /\ sel[c] # {}
    /\ pending' = [pending EXCEPT ![c] =
                      {s \in Seats : Matches(status, s, route[c])}]
    /\ pc' = [pc EXCEPT ![c] = "commit"]
    /\ UNCHANGED <<status, initStatus, bookedBy, locks, sel, conn, txn, route,
                   num, ret, outcome, availAtStart, solo, errAt, cres>>

\* tools.py 42-55: enough rows were locked;
\* UPDATE t_seat SET seat_status=1 WHERE id IN (the selected ids)
Update(c) ==
    /\ SelectComplete(c)
    /\ ~TooFew(c)
    /\ sel[c] # {}
    /\ pending' = [pending EXCEPT ![c] = sel[c]]
    /\ pc' = [pc EXCEPT ![c] = "commit"]
    /\ UNCHANGED <<status, initStatus, bookedBy, locks, sel, conn, txn, route,
                   num, ret, outcome, availAtStart, solo, errAt, cres>>

\* tools.py 56-57, 62-63 and server.py 63-64: commit, close, success
Commit(c) ==
    /\ pc[c] = "commit"
    /\ status' = [s \in Seats |-> IF s \in pending[c] THEN BOOKED ELSE status[s]]
    /\ bookedBy' = [s \in Seats |->
                      IF s \in pending[c] THEN bookedBy[s] \cup {c}
                      ELSE bookedBy[s]]
    /\ pending' = [pending EXCEPT ![c] = {}]
    /\ locks' = [locks EXCEPT ![c] = {}]
    /\ sel' = [sel EXCEPT ![c] = {}]
    /\ conn' = [conn EXCEPT ![c] = "closed"]
    /\ txn' = [txn EXCEPT ![c] = "committed"]
    /\ ret' = [ret EXCEPT ![c] = "ok"]
    /\ outcome' = [outcome EXCEPT ![c] = SuccessOutcome(num[c], "ok")]
    /\ pc' = [pc EXCEPT ![c] = "done"]
    /\ UNCHANGED <<initStatus, route, num, availAtStart, solo, errAt, cres>>

\* (variant: the except clause returns without conn.rollback() and without
\* the finally clause, so the transaction keeps its row locks)
Rollback_KeepsLocks(c, at) ==
    /\ errAt' = [errAt EXCEPT ![c] = at]
    /\ ret' = [ret EXCEPT ![c] = "failed"]
    /\ outcome' = [outcome EXCEPT ![c] = SuccessOutcome(num[c], "failed")]
    /\ pc' = [pc EXCEPT ![c] = "done"]
    /\ UNCHANGED <<status, initStatus, bookedBy, pending, locks, sel, conn,
                   txn, route, num, availAtStart, solo, cres>>

\* tools.py 59-63 and server.py 63-64: a statement of the transaction raised;
\* rollback, close, book_ticket returns the "订票失败" string and the tool
\* returns success
Rollback(c, at) ==
    /\ errAt' = [errAt EXCEPT ![c] = at]
    /\ pending' = [pending EXCEPT ![c] = {}]
    /\ locks' = [locks EXCEPT ![c] = {}]
    /\ sel' = [sel EXCEPT ![c] = {}]
    /\ conn' = [conn EXCEPT ![c] = "closed"]
    /\ txn' = [txn EXCEPT ![c] = "rolledback"]
    /\ ret' = [ret EXCEPT ![c] = "failed"]
    /\ outcome' = [outcome EXCEPT ![c] = SuccessOutcome(num[c], "failed")]
    /\ pc' = [pc EXCEPT ![c] = "done"]
    /\ UNCHANGED <<status, initStatus, bookedBy, route, num, availAtStart,
                   solo, cres>>

\* the store fails the locking select or the update (position "select": rows
\* may be locked, none is written) or the commit (position "commit"):
\* lock wait timeout, deadlock, constraint violation
TxnError(c) ==
    /\ pc[c] \in {"select", "commit"}
    /\ Rollback(c, "txn")

\* tools.py 59-63 and server.py 65-66: the connection is lost during a
\* statement of the transaction before the server has executed it:
\* conn.rollback() raises as well, conn.close() raises in the finally clause
\* and the tool returns the fail outcome; on the server the transaction is
\* still open and keeps its row locks
TxnConnectionLost(c) ==
    /\ pc[c] \in {"select", "commit"}
    /\ errAt' = [errAt EXCEPT ![c] = "txn"]
    /\ sel' = [sel EXCEPT ![c] = {}]
    /\ conn' = [conn EXCEPT ![c] = "lost"]
    /\ ret' = [ret EXCEPT ![c] = "raised"]
    /\ outcome' = [outcome EXCEPT ![c] = ExceptionOutcome]
    /\ pc' = [pc EXCEPT ![c] = "done"]
    /\ UNCHANGED <<status, initStatus, bookedBy, locks, pending, txn, route,
                   num, availAtStart, solo, cres>>

\* tools.py 56, 59-63 and server.py 65-66: the connection is lost after the
\* server has executed the COMMIT and before its reply reaches the client:
\* the rows are BOOKED and the locks released, while conn.commit(),
\* conn.rollback() and conn.close() raise and the tool returns the fail
\* outcome
CommitReplyLost(c) ==
    /\ pc[c] = "commit"
    /\ status' = [s \in Seats |-> IF s \in pending[c] THEN BOOKED ELSE status[s]]
    /\ bookedBy' = [s \in Seats |->
                      IF s \in pending[c] THEN bookedBy[s] \cup {c}
                      ELSE bookedBy[s]]
    /\ errAt' = [errAt EXCEPT ![c] = "txn"]
    /\ pending' = [pending EXCEPT ![c] = {}]
    /\ locks' = [locks EXCEPT ![c] = {}]
    /\ sel' = [sel EXCEPT ![c] = {}]
    /\ conn' = [conn EXCEPT ![c] = "closed"]
    /\ txn' = [txn EXCEPT ![c] = "committed"]
    /\ ret' = [ret EXCEPT ![c] = "raised"]
    /\ outcome' = [outcome EXCEPT ![c] = ExceptionOutcome]
    /\ pc' = [pc EXCEPT ![c] = "done"]
    /\ UNCHANGED <<initStatus, route, num, availAtStart, solo, cres>>

\* the transaction of call c is still open on the server although the call
\* has returned: its connection is dead, or was closed without commit or
\* rollback
Orphaned(c) == conn[c] \in {"closed", "lost"} /\ txn[c] = "active"

\* the store ends the session of the closed or dead connection: the open
\* transaction is rolled back and its row locks are released
ServerEndsTxn(c) ==
    /\ Orphaned(c)
    /\ pending' = [pending EXCEPT ![c] = {}]
    /\ locks' = [locks EXCEPT ![c] = {}]
    /\ conn' = [conn EXCEPT ![c] = "closed"]
    /\ txn' = [txn EXCEPT ![c] = "abandoned"]
    /\ UNCHANGED <<status, initStatus, bookedBy, sel, pc, route, num, ret,
                   outcome, availAtStart, solo, errAt, cres>>

\* tools.py 48-55: with num_seats = 0 no row is selected and the statement
\* reads "WHERE id IN ()", which the server rejects
UpdateSyntaxError(c) ==
    /\ SelectComplete(c)
    /\ ~TooFew(c)
    /\ sel[c] = {}
    /\ Rollback(c, "syntax")

\* the steps of book_ticket_tool calls
NextBook ==
    \/ \E c \in Calls, r \in Routes, m \in Requests : PreCheckReject(c, r, m)
    \/ \E c \in Calls, r \in Routes, m \in Requests : PreCheckPass(c, r, m)
    \/ \E c \in Calls : PreCheckError(c)
    \/ \E c \in Calls, r \in Routes, m \in Requests : BookConnectError(c, r, m)
    \/ \E c \in Calls : LockRow(c)
    \/ \E c \in Calls : FetchTooFew(c)
    \/ \E c \in Calls : Update(c)
    \/ \E c \in Calls : Commit(c)
    \/ \E c \in Calls : TxnError(c)
    \/ \E c \in Calls : TxnConnectionLost(c)
    \/ \E c \in Calls : CommitReplyLost(c)
    \/ \E c \in Calls : ServerEndsTxn(c)
    \/ \E c \in Calls : UpdateSyntaxError(c)

\* the steps a book_ticket call takes by itself once its transaction is
\* open: each statement is executed as soon as the store lets it (store
\* errors are not among them: they may happen, they need not)
Progress(c) ==
    \/ LockRow(c)
    \/ FetchTooFew(c)
    \/ Update(c)
    \/ Commit(c)
    \/ UpdateSyntaxError(c)

\* the steps of check_ticket_tool calls
NextCheck ==
    \/ \E r \in Routes : CheckOk(r)
    \/ CheckFail

Next == NextBook \/ NextCheck

\* booking and availability calls running concurrently
Spec == Init /\ [][Next]_vars

\* booking calls only (availability checks change nothing a booking reads)
SpecBook == Init /\ [][NextBook]_vars

\* booking calls only, each in-flight call being scheduled and the store
\* dropping the session of every dead connection (weak fairness)
SpecFair ==
    /\ Init
    /\ [][NextBook]_vars
    /\ \A c \in Calls : WF_vars(Progress(c))
    /\ \A c \in Calls : WF_vars(ServerEndsTxn(c))

\* ------------------------------------------------------------ properties
Returned(c) == pc[c] = "done"
AllReturned == \A c \in Calls : Returned(c)
Returns(c) == pc[c] # "done" /\ pc'[c] = "done"

\* book_ticket_tool calls on route r that have returned status "success"
Succeeded(r) ==
    {c \in Calls : Returned(c) /\ route[c] = r /\ outcome[c].status = "success"}
BookedOf == [c \in Calls |-> outcome[c].booked]

\* the calls made so far are concurrent calls on route r, each for >= 1 seat,
\* that together ask for more seats than r had, and the store raised no error
Contended(r) ==
    /\ \A c \in Calls : errAt[c] = "none"
    /\ \A c \in Calls : pc[c] # "idle" =>
          route[c] = r /\ num[c] >= 1 /\ ~solo[c]
    /\ SumOver({c \in Calls : pc[c] # "idle"}, num) > AvailableCount(initStatus, r)

\* C1: for K concurrent BookSeats(R, n_i) calls whose requests add up to more
\* than the A seats AVAILABLE initially, the booked values of the calls that
\* return "success" never add up to more than A, and once all calls have
\* returned the AVAILABLE count of R is A minus that sum.
C1_NoOversoldOutcomes ==
    \A r \in Routes :
        Contended(r) =>
            /\ SumOver(Succeeded(r), BookedOf) <= AvailableCount(initStatus, r)
            /\ AllReturned =>
                 AvailableCount(status, r) =
                   AvailableCount(initStatus, r) - SumOver(Succeeded(r), BookedOf)

\* seats of route r that went from AVAILABLE to BOOKED
Transitioned(r) ==
    {s \in Seats : SeatRoute(s) = r /\ initStatus[s] = AVAILABLE
                   /\ status[s] = BOOKED}
Committed(r) == {c \in Calls : txn[c] = "committed" /\ route[c] = r}

\* C2: no seat row is locked by two in-flight booking transactions at once,
\* no seat is set to BOOKED by more than one committed transaction, and on
\* every route the number of seats that became BOOKED is the sum of num_seats
\* over the committed transactions and at most the number AVAILABLE at the
\* start.
C2_RowLocksPreventOverselling ==
    /\ \A c, d \in Calls : c # d => locks[c] \cap locks[d] = {}
    /\ \A s \in Seats : Cardinality(bookedBy[s]) <= 1
    /\ \A r \in Routes :
         /\ Cardinality(Transitioned(r)) = SumOver(Committed(r), num)
         /\ Cardinality(Transitioned(r)) <= AvailableCount(initStatus, r)

\* two overlapping calls on one route have both committed
C2_Witness ==
    \E c, d \in Calls :
        /\ c # d /\ route[c] = route[d]
        /\ txn[c] = "committed" /\ txn[d] = "committed"
        /\ ~solo[c] /\ ~solo[d]

\* C3: a single BookSeats(R, n) with 1 <= n <= A, run with no concurrent
\* booking and no store error, returns "success" with booked = n and leaves
\* exactly A - n seats of R AVAILABLE.
C3_SingleBookingSucceeds ==
    [][\A c \in Calls :
        (/\ Returns(c)
         /\ solo'[c]
         /\ errAt'[c] = "none"
         /\ num'[c] >= 1
         /\ num'[c] <= availAtStart'[c])
        => /\ outcome'[c].status = "success"
           /\ outcome'[c].booked = num'[c]
           /\ AvailableCount(status', route'[c]) = availAtStart'[c] - num'[c]]_vars

\* a call that ran alone has booked every seat that was available
C3_Witness ==
    \E c \in Calls :
        /\ Returned(c) /\ solo[c] /\ errAt[c] = "none"
        /\ num[c] >= 1 /\ num[c] = availAtStart[c]
        /\ outcome[c].status = "success"
        /\ AvailableCount(status, route[c]) = 0

\* C4: a single BookSeats(R, n) with n > A, run with no concurrent booking
\* and no store error, returns "fail" with booked = 0 and a message that
\* reports A, and changes no seat.
C4_SingleBookingRejected ==
    [][\A c \in Calls :
        (/\ Returns(c)
         /\ solo'[c]
         /\ errAt'[c] = "none"
         /\ num'[c] > availAtStart'[c])
        => /\ outcome'[c].status = "fail"
           /\ outcome'[c].booked = 0
           /\ outcome'[c].kind = "insufficient"
           /\ outcome'[c].n = availAtStart'[c]
           /\ pc[c] = "idle"
           /\ status' = status
           /\ AvailableCount(status', route'[c]) = availAtStart'[c]]_vars

\* a call asking for more than the one seat left was rejected
C4_Witness ==
    \E c \in Calls :
        /\ Returned(c) /\ solo[c] /\ errAt[c] = "none"
        /\ availAtStart[c] = 1 /\ num[c] = 2
        /\ outcome[c].status = "fail" /\ outcome[c].n = 1

\* C5: when the locking select, the update or the commit of a booking
\* transaction raises, the transaction is rolled back, no seat changes, and
\* the call returns "fail" with booked = 0 without a second attempt.
C5_StoreErrorReportedAsFail ==
    \A c \in Calls :
        (Returned(c) /\ errAt[c] = "txn" /\ num[c] >= 1)
        => /\ outcome[c].status = "fail"
           /\ outcome[c].booked = 0
           /\ txn[c] # "committed"
           /\ \A s \in Seats : c \notin bookedBy[s]

\* C6: when the locking select obtains fewer rows than requested, the
\* transaction changes no seat, holds no lock afterwards, and the call
\* returns "fail" with booked = 0 and the number of seats actually available.
C6_TooFewRowsReportedAsFail ==
    \A c \in Calls :
        (Returned(c) /\ ret[c] = "insufficient")
        => /\ locks[c] = {}
           /\ \A s \in Seats : c \notin bookedBy[s]
           /\ outcome[c].status = "fail"
           /\ outcome[c].booked = 0
           /\ outcome[c].kind = "insufficient"
           /\ outcome[c].n < num[c]

\* C7: BookSeats(R, n) with n <= 0 returns "fail" with booked = 0 and does
\* so before it opens a connection, locks a row or changes a seat.
C7_NonPositiveCountRejected ==
    \A c \in Calls :
        (Returned(c) /\ num[c] <= 0 /\ errAt[c] \in {"none", "syntax"})
        => /\ outcome[c].status = "fail"
           /\ outcome[c].booked = 0
           /\ conn[c] = "none"
           /\ txn[c] = "none"

\* C8: every call that returns "fail" returns booked = 0 and has changed no
\* seat (its transaction did not commit), and every call that ends returns
\* an outcome dict (no exception leaves book_ticket_tool).
C8_FailMeansNothingBooked ==
    \A c \in Calls :
        Returned(c) =>
            /\ outcome[c].status \in {"success", "fail"}
            /\ outcome[c].status = "fail" =>
                 /\ outcome[c].booked = 0
                 /\ txn[c] # "committed"
                 /\ \A s \in Seats : c \notin bookedBy[s]

\* C9: CheckAvailability changes no seat and takes no row lock, and a
\* successful check returns the number of AVAILABLE seats whose
\* (start_station, end_station) is exactly the route asked for, which is 0
\* with status "success" when no seat matches.
C9_CheckIsReadOnlyCount ==
    [][cres' # cres =>
        /\ status' = status
        /\ locks' = locks
        /\ pending' = pending
        /\ bookedBy' = bookedBy
        /\ cres'.status \in {"success", "fail"}
        /\ cres'.status = "success" =>
             cres'.remaining = AvailableCount(status, cres'.route)]_vars

\* a check of a route whose seats are all BOOKED returned 0 with "success"
C9_Witness ==
    /\ cres.status = "success" /\ cres.remaining = 0
    /\ \E s \in Seats : SeatRoute(s) = cres.route /\ status[s] = BOOKED
    /\ AvailableCount(status, cres.route) = 0

\* C10: of two concurrent BookSeats(R, n) calls with n <= A < 2n exactly one
\* returns "success", and the booked values reported add up to at most A.
C10_ExactlyOneOfTwoSucceeds ==
    \A c, d \in Calls :
        (/\ c < d
         /\ Returned(c) /\ Returned(d)
         /\ \A e \in Calls \ {c, d} : pc[e] = "idle"
         /\ ~solo[c] /\ ~solo[d]
         /\ errAt[c] = "none" /\ errAt[d] = "none"
         /\ route[c] = route[d] /\ num[c] = num[d]
         /\ num[c] >= 1
         /\ num[c] <= availAtStart[c]
         /\ availAtStart[c] < 2 * num[c])
        => /\ (outcome[c].status = "success") # (outcome[d].status = "success")
           /\ outcome[c].booked + outcome[d].booked <= availAtStart[c]

\* C11: a CheckAvailability(R) that runs concurrently with booking
\* transactions returns the initial available count of R minus the sum of
\* num_seats over the transactions on R committed before the read: it
\* reflects no seat of an uncommitted or rolled-back transaction and never
\* only some of the seats of one transaction.
C11_CheckSeesOnlyCommitted ==
    [][(cres' # cres /\ cres'.status = "success") =>
        cres'.remaining =
            AvailableCount(initStatus, cres'.route)
              - SumOver(Committed(cres'.route), num)]_vars

\* a check has read a route while a transaction held two uncommitted rows of
\* it, and returned the full count
C11_Witness ==
    /\ cres.status = "success"
    /\ cres.written >= 2
    /\ cres.remaining = AvailableCount(initStatus, cres.route)

\* C12: CheckAvailability never waits on booking locks: in every reachable
\* state, also while a booking transaction holds row locks on seats of the
\* same route, a check of any route can run and complete.
C12_CheckNeverBlocks ==
    \A r \in Routes : ENABLED CheckOk(r)

\* a check has completed on a route of which a transaction that is still
\* open held a written, locked row
C12_Witness ==
    /\ cres.status = "success"
    /\ cres.written >= 1
    /\ \E c \in Calls : pc[c] = "commit" /\ route[c] = cres.route
                        /\ locks[c] # {}

\* the transaction of call c has ended: committed, rolled back by
\* conn.rollback(), or ended by the server when its connection was closed
\* or lost without a commit (which rolls it back)
TxnEnded(c) == txn[c] \in {"committed", "rolledback", "abandoned"}

\* C13: when a BookSeats call returns, on every exit path, its connection is
\* closed (if it opened one), its transaction is committed or rolled back and
\* it holds no row lock and no uncommitted update; a CheckAvailability call
\* opens no booking transaction and leaves no row lock behind.
C13_ScopedConnections ==
    /\ [](\A c \in Calls :
            Returned(c) =>
                /\ conn[c] # "open"
                /\ conn[c] # "none" => TxnEnded(c)
                /\ conn[c] = "none" => txn[c] = "none"
                /\ locks[c] = {}
                /\ pending[c] = {})
    /\ [][cres' # cres => locks' = locks /\ conn' = conn /\ txn' = txn]_vars

\* C14: BookSeats is not idempotent: two identical BookSeats(R, n) calls with
\* n >= 1 and 2n <= A, run one after the other (and meeting no store error),
\* both return "success" with booked = n, and A - 2n seats of R are AVAILABLE
\* afterwards.
C14_RepeatedBookingBooksAgain ==
    \A c, d \in Calls :
        (/\ d = c + 1
         /\ Returned(c) /\ Returned(d)
         /\ \A e \in Calls : e > d => pc[e] = "idle"
         /\ solo[c] /\ solo[d]
         /\ errAt[c] = "none" /\ errAt[d] = "none"
         /\ route[c] = route[d] /\ num[c] = num[d]
         /\ num[c] >= 1
         /\ 2 * num[c] <= availAtStart[c])
        => /\ outcome[c].status = "success" /\ outcome[c].booked = num[c]
           /\ outcome[d].status = "success" /\ outcome[d].booked = num[d]
           /\ ret[c] = "ok" /\ ret[d] = "ok"
           /\ AvailableCount(status, route[c]) = availAtStart[c] - 2 * num[c]

\* the same booking was made twice in a row and both calls committed
C14_Witness ==
    \E c, d \in Calls :
        /\ d = c + 1
        /\ Returned(c) /\ Returned(d)
        /\ solo[c] /\ solo[d]
        /\ route[c] = route[d] /\ num[c] = num[d] /\ num[c] >= 1
        /\ txn[c] = "committed" /\ txn[d] = "committed"
        /\ AvailableCount(status, route[c]) = availAtStart[c] - 2 * num[c]

\* call c commits in this step
Commits(c) == pc[c] = "commit" /\ txn[c] = "active" /\ txn'[c] = "committed"

\* call c executes its UPDATE statement in this step
Updates(c) == pc[c] = "select" /\ pc'[c] = "commit"

\* the rows whose status differs between the two states of a step
Changed == {s \in Seats : status'[s] # status[s]}

\* C15: seat status is monotonic: a BOOKED seat stays BOOKED, a seat changes
\* status only from AVAILABLE to BOOKED and only at the commit of a BookSeats
\* transaction, no seat is created or deleted, and the available count of no
\* route ever increases.
C15_StatusMonotonic ==
    [][\/ status' = status
       \/ /\ DOMAIN status' = DOMAIN status
          /\ \A s \in Seats : status[s] = BOOKED => status'[s] = BOOKED
          /\ \A s \in Changed : status[s] = AVAILABLE /\ status'[s] = BOOKED
          /\ \E c \in Calls : Commits(c)
          /\ \A r \in Routes :
                 AvailableCount(status', r) <= AvailableCount(status, r)]_vars

\* a commit has booked seats, another transaction on the same route was
\* rolled back, and a seat of the route is still AVAILABLE
C15_Witness ==
    \E c, d \in Calls :
        /\ c # d
        /\ txn[c] = "committed" /\ num[c] >= 1
        /\ txn[d] = "rolledback" /\ errAt[d] = "txn" /\ num[d] >= 1
        /\ route[c] = route[d]
        /\ AvailableCount(status, route[c])
             = AvailableCount(initStatus, route[c]) - num[c]
        /\ AvailableCount(status, route[c]) >= 1

\* C16: a committing booking transaction marks BOOKED exactly the rows it
\* selected and locked: num_seats rows, each AVAILABLE and exclusively locked
\* by the transaction when the update is executed, and no other row changes.
C16_CommitMarksSelectedRows ==
    [][\A c \in Calls :
         /\ Updates(c) =>
              /\ pending'[c] = sel[c]
              /\ sel[c] = locks[c]
              /\ Cardinality(sel[c]) = num[c]
              /\ \A s \in sel[c] :
                    /\ status[s] = AVAILABLE
                    /\ Matches(status, s, route[c])
                    /\ \A d \in Calls \ {c} : s \notin locks[d]
         /\ Commits(c) =>
              /\ Changed = sel[c]
              /\ Changed = locks[c]
              /\ Changed = pending[c]
              /\ Cardinality(Changed) = num[c]
              /\ \A s \in Changed :
                    /\ status[s] = AVAILABLE /\ status'[s] = BOOKED
                    /\ \A d \in Calls \ {c} : s \notin locks[d]
              /\ \A s \in Seats \ Changed : status'[s] = status[s]]_vars

\* a transaction committed fewer rows than its route has while another
\* transaction was in flight on the same route
C16_Witness ==
    \E c, d \in Calls :
        /\ c # d
        /\ txn[c] = "committed" /\ num[c] >= 1
        /\ route[d] = route[c] /\ pc[d] = "select" /\ num[d] >= 1
        /\ Cardinality({s \in Seats : bookedBy[s] = {c}}) = num[c]
        /\ AvailableCount(status, route[c]) >= 1

\* call c takes a step
Steps(c) == pc'[c] # pc[c] \/ locks'[c] # locks[c]

\* C17: BookSeats(R, n) affects only route R: at every step of the call,
\* whatever its outcome, every seat of every other route (the reversed pair
\* and pairs differing in one station included) keeps its status, and
\* CheckAvailability of that route returns the same count.
C17_OtherRoutesUntouched ==
    [][\A c \in Calls : Steps(c) =>
         \A r \in Routes \ {route'[c]} :
            /\ \A s \in Seats : SeatRoute(s) = r => status'[s] = status[s]
            /\ \A s \in locks'[c] : SeatRoute(s) # r
            /\ check_ticket(status', r) = check_ticket(status, r)]_vars

\* bookings were committed on one route and the seats of a route that shares
\* its start station are all still AVAILABLE
C17_Witness ==
    \E c \in Calls, r \in Routes :
        /\ txn[c] = "committed" /\ num[c] >= 1
        /\ r # route[c] /\ r[1] = route[c][1]
        /\ AvailableCount(initStatus, r) >= 1
        /\ AvailableCount(status, r) = AvailableCount(initStatus, r)
        /\ AvailableCount(status, route[c]) < AvailableCount(initStatus, route[c])

\* call c waits in its locking select for a row another transaction holds
Waiting(c) ==
    /\ pc[c] = "select"
    /\ TooFew(c)
    /\ Candidates(c) # {}
    /\ ~CanLock(c, Min(Candidates(c)))

\* C18: under weak fairness of every in-flight call, concurrent BookSeats
\* calls are deadlock-free: while calls are in flight one of them can take a
\* step (or the store can drop a dead connection's transaction), every call
\* waiting for a row lock eventually stops waiting (it gets the lock or the
\* row is released), and every started call eventually returns an outcome.
\* (A call never becomes idle again, so "in flight leads to returned" is
\* "always eventually not in flight", and every returned call has an outcome.)
C18_EveryCallReturns ==
    /\ [](/\ (\E c \in Calls : InFlight(c)) =>
               \E c \in Calls : (InFlight(c) /\ ~Waiting(c)) \/ Orphaned(c)
          /\ \A c \in Calls : Returned(c) => outcome[c] # NoOutcome)
    /\ [][\A c \in Calls : pc[c] # "idle" => pc'[c] # "idle"]_vars
    /\ \A c \in Calls : []<>~Waiting(c)
    /\ \A c \in Calls : []<>~InFlight(c)

\* a call waits for a row that is locked by another in-flight call on the
\* same route, which has its rows and has executed its update
C18_Witness ==
    \E c, d \in Calls :
        /\ c # d
        /\ Waiting(c)
        /\ pc[d] = "commit" /\ route[d] = route[c]
        /\ Min(Candidates(c)) \in locks[d]
====
